---- MODULE Spec2Model ----
(***************************************************************************)
(* Model of chess-image-generator (hadley31 fork): the ChessImageGenerator *)
(* object of src/unnamed/part_000 (the variant with square highlighting;   *)
(* src/src/chess-image-generator.js is the same code without highlights),  *)
(* together with the part of the chess.js engine it calls.                 *)
(*                                                                         *)
(* Representation.  A JavaScript string that the code takes apart is a     *)
(* tuple of one-character strings; a square name such as "e4" is the pair  *)
(* <<"e", 4>> (cols[j] + (8 - i)).  A JavaScript value whose type matters  *)
(* (an option, a highlight-map entry) is a record tagged with its typeof.  *)
(* A character outside ASCII is written by its code point, "U+212A".       *)
(***************************************************************************)
EXTENDS Integers, Sequences, FiniteSets, TLC

VARIABLES
    options,            \* the argument the constructor was called with
    cfg,                \* this.size, light, dark, highlight, style, drawLabels, labelLight, labelDark, flipped
    ready,              \* this.ready
    chess,              \* this.chess: [board, turn]
    highlightedSquares, \* this.highlightedSquares
    calls,              \* the generateBuffer / generatePNG calls whose promise the caller still
                        \* holds, one record per call (the fields are listed at NoCall)
    files,              \* one fs.open / fs.write / fs.close callback chain per fs.open call
    uncaught,           \* an exception thrown in an fs callback, outside every promise
    thrown,             \* the Error the last load threw ("" when it returned normally)
    everLoaded,         \* history: some loadPGN / loadFEN / loadArray has returned normally
    races               \* number of calls made on the instance while a render was suspended

vars == <<options, cfg, ready, chess, highlightedSquares, calls, files, uncaught, thrown,
          everLoaded, races>>

(***************************************************************************)
(* JavaScript values                                                       *)
(***************************************************************************)
Undefined == [t |-> "undefined"]
Null      == [t |-> "null"]
JSBool(b) == [t |-> "boolean", b |-> b]
JSStr(s)  == [t |-> "string", s |-> s]
JSNum(n)  == [t |-> "number", n |-> n]

\* ToBoolean of a tagged value
Truthy(v) ==
    CASE v.t = "undefined" -> FALSE
      [] v.t = "null"      -> FALSE
      [] v.t = "boolean"   -> v.b
      [] v.t = "string"    -> v.s # ""
      [] v.t = "number"    -> v.n # 0
      [] OTHER             -> TRUE

\* v !== true, v !== false
NotStrictlyTrue(v)  == ~(v.t = "boolean" /\ v.b)
NotStrictlyFalse(v) == ~(v.t = "boolean" /\ ~v.b)

\* a || d for a string-valued option and a default
OrDefault(v, d) == IF Truthy(v) THEN (IF v.t = "string" THEN v.s ELSE v.n) ELSE d

(***************************************************************************)
(* config/index                                                            *)
(***************************************************************************)
cols  == <<"a", "b", "c", "d", "e", "f", "g", "h">>
white == {"P", "B", "N", "R", "Q", "K"}
black == {"p", "b", "n", "r", "q", "k"}
defaultSize      == 480
defaultLight     == "rgb(240, 217, 181)"
defaultDark      == "rgb(181, 136, 99)"
defaultHighlight == "rgba(235, 97, 80, 0.8)"
defaultStyle     == "merida"

filePaths(color, type) ==
    CASE color = "w" /\ type = "p" -> "WhitePawn"
      [] color = "w" /\ type = "n" -> "WhiteKnight"
      [] color = "w" /\ type = "b" -> "WhiteBishop"
      [] color = "w" /\ type = "r" -> "WhiteRook"
      [] color = "w" /\ type = "q" -> "WhiteQueen"
      [] color = "w" /\ type = "k" -> "WhiteKing"
      [] color = "b" /\ type = "p" -> "BlackPawn"
      [] color = "b" /\ type = "n" -> "BlackKnight"
      [] color = "b" /\ type = "b" -> "BlackBishop"
      [] color = "b" /\ type = "r" -> "BlackRook"
      [] color = "b" /\ type = "q" -> "BlackQueen"
      [] color = "b" /\ type = "k" -> "BlackKing"
      [] OTHER -> "undefined"

\* String.prototype.toLowerCase on one character.  It lowers by the Unicode case
\* mapping: the 26 ASCII capitals, and capitals outside ASCII, of which the table
\* holds U+212A KELVIN SIGN (the one character outside ASCII whose lower-case
\* form is an ASCII letter, k), U+212B ANGSTROM SIGN and U+00C9; a character
\* without a lower-case form (lower-case letters, digits, blanks) is kept
UnicodeUpper == <<"U+212A", "U+212B", "U+00C9">>
UnicodeLower == <<"k", "U+00E5", "U+00E9">>
UpperCase == <<"A", "B", "C", "D", "E", "F", "G", "H", "I", "J", "K", "L", "M",
               "N", "O", "P", "Q", "R", "S", "T", "U", "V", "W", "X", "Y", "Z">>
LowerCase == <<"a", "b", "c", "d", "e", "f", "g", "h", "i", "j", "k", "l", "m",
               "n", "o", "p", "q", "r", "s", "t", "u", "v", "w", "x", "y", "z">>
toLowerCase(ch) ==
    IF \E n \in 1..26 : UpperCase[n] = ch
    THEN LowerCase[CHOOSE n \in 1..26 : UpperCase[n] = ch]
    ELSE IF \E n \in 1..Len(UnicodeUpper) : UnicodeUpper[n] = ch
    THEN UnicodeLower[CHOOSE n \in 1..Len(UnicodeUpper) : UnicodeUpper[n] = ch]
    ELSE ch

\* `${n}` for a rank number
NumberToString(n) == <<"1", "2", "3", "4", "5", "6", "7", "8">>[n]

(***************************************************************************)
(* chess.js: board, put, get, clear, load, reset, load_pgn                 *)
(***************************************************************************)
SQUARES == {<<cols[c], r>> : c \in 1..8, r \in 1..8}
SYMBOLS == {"p", "n", "b", "r", "q", "k", "P", "N", "B", "R", "Q", "K"}
NoPiece == [type |-> "-", color |-> "-"]
EmptyBoard == [sq \in SQUARES |-> NoPiece]

FileIndex(f) == CHOOSE c \in 1..8 : cols[c] = f

\* chess.get(square): the piece, or null
get(ch, square) == IF square \in SQUARES THEN ch.board[square] ELSE NoPiece

\* chess.clear()
clear == [board |-> EmptyBoard, turn |-> "w"]

\* chess.put(piece, square): refuses an unknown piece type, an unknown square and
\* a second king of one colour; the board is unchanged when it refuses
putRefused(b, piece, square) ==
    \/ toLowerCase(piece.type) \notin SYMBOLS
    \/ square \notin SQUARES
    \/ /\ piece.type = "k"
       /\ \E s \in SQUARES : s # square /\ b[s] = [type |-> "k", color |-> piece.color]

put(b, piece, square) ==
    IF putRefused(b, piece, square) THEN b
    ELSE [b EXCEPT ![square] = [type |-> piece.type, color |-> piece.color]]

IsDigit(ch) == ch \in {"0", "1", "2", "3", "4", "5", "6", "7", "8", "9"}
parseInt(ch) ==
    CASE ch = "0" -> 0 [] ch = "1" -> 1 [] ch = "2" -> 2 [] ch = "3" -> 3
      [] ch = "4" -> 4 [] ch = "5" -> 5 [] ch = "6" -> 6 [] ch = "7" -> 7
      [] ch = "8" -> 8 [] ch = "9" -> 9

\* tokens[0].split("/")
RECURSIVE split(_, _, _)
split(chars, k, row) ==
    IF k > Len(chars) THEN <<row>>
    ELSE IF chars[k] = "/" THEN <<row>> \o split(chars, k + 1, <<>>)
    ELSE split(chars, k + 1, Append(row, chars[k]))

\* validate_fen, rule 8: one rank of the placement field
RECURSIVE rowValid(_, _, _, _)
rowValid(row, k, sum, previousWasNumber) ==
    IF k > Len(row) THEN sum = 8
    ELSE IF IsDigit(row[k])
         THEN ~previousWasNumber /\ rowValid(row, k + 1, sum + parseInt(row[k]), TRUE)
         ELSE row[k] \in SYMBOLS /\ rowValid(row, k + 1, sum + 1, FALSE)

\* validate_fen(fen).valid; a FEN is the tuple of its whitespace-separated fields,
\* the placement and en-passant fields tuples of characters, the two counters numbers
validate_fen(fen) ==
    /\ Len(fen) = 6
    /\ fen[6] > 0
    /\ fen[5] >= 0
    /\ fen[4] \in {<<"-">>} \cup {<<cols[c], r>> : c \in 1..8, r \in {"3", "6"}}
    /\ fen[3] \in {"-", "KQkq", "KQ", "kq", "K", "Q", "k", "q", "KQk", "KQq", "Kkq", "Qkq",
                   "Kk", "Kq", "Qk", "Qq"}
    /\ fen[2] \in {"w", "b"}
    /\ LET rows == split(fen[1], 1, <<>>)
       IN  Len(rows) = 8 /\ \A r \in 1..8 : rowValid(rows[r], 1, 0, FALSE)

\* algebraic(square) for the running square counter 0..63 of load
algebraic(n) == <<cols[(n % 8) + 1], 8 - (n \div 8)>>

\* the placement loop of load: digits skip, "/" ends a rank, letters are put
RECURSIVE loadPlacement(_, _, _, _)
loadPlacement(chars, k, n, b) ==
    IF k > Len(chars) THEN b
    ELSE IF chars[k] = "/" THEN loadPlacement(chars, k + 1, n, b)
    ELSE IF IsDigit(chars[k]) THEN loadPlacement(chars, k + 1, n + parseInt(chars[k]), b)
    ELSE loadPlacement(chars, k + 1, n + 1,
             put(b, [type |-> toLowerCase(chars[k]),
                     color |-> IF chars[k] \in white THEN "w" ELSE "b"], algebraic(n)))

\* chess.load(fen): [ok, chess]; an invalid FEN leaves the engine untouched
load(ch, fen) ==
    IF ~validate_fen(fen) THEN [ok |-> FALSE, chess |-> ch]
    ELSE [ok |-> TRUE,
          chess |-> [board |-> loadPlacement(fen[1], 1, 0, EmptyBoard), turn |-> fen[2]]]

DEFAULT_POSITION ==
    << <<"r","n","b","q","k","b","n","r","/","p","p","p","p","p","p","p","p","/",
         "8","/","8","/","8","/","8","/",
         "P","P","P","P","P","P","P","P","/","R","N","B","Q","K","B","N","R">>,
       "w", "KQkq", <<"-">>, 0, 1 >>

\* chess.reset()
reset == load(clear, DEFAULT_POSITION).chess

Adjacent(s, t) ==
    LET df == FileIndex(s[1]) - FileIndex(t[1])
        dr == s[2] - t[2]
    IN  s # t /\ df \in {-1, 0, 1} /\ dr \in {-1, 0, 1}

swap_color(c) == IF c = "w" THEN "b" ELSE "w"

\* generate_moves, for the positions the PGN inputs reach (kings only): the king
\* of the side to move steps to a neighbouring square that is not its own piece's
\* and is not next to the other king
generate_moves(ch) ==
    {m \in [from : SQUARES, to : SQUARES] :
        /\ ch.board[m.from] = [type |-> "k", color |-> ch.turn]
        /\ Adjacent(m.from, m.to)
        /\ ch.board[m.to].color # ch.turn
        /\ \A s \in SQUARES :
              ch.board[s] = [type |-> "k", color |-> swap_color(ch.turn)] => ~Adjacent(s, m.to) /\ s # m.to}

\* move_from_san: the legal move whose SAN is the text, or none
move_from_san(ch, san) ==
    {m \in generate_moves(ch) : san = <<"K", m.to[1], NumberToString(m.to[2])>>}

make_move(ch, m) ==
    [board |-> [ch.board EXCEPT ![m.to] = ch.board[m.from], ![m.from] = NoPiece],
     turn |-> swap_color(ch.turn)]

\* the move loop of load_pgn: stops at the first move that is not legal, with the
\* moves before it made
RECURSIVE playMoves(_, _, _)
playMoves(ch, moves, k) ==
    IF k > Len(moves) THEN [ok |-> TRUE, chess |-> ch]
    ELSE LET ms == move_from_san(ch, moves[k])
         IN  IF ms = {} THEN [ok |-> FALSE, chess |-> ch]
             ELSE playMoves(make_move(ch, CHOOSE m \in ms : TRUE), moves, k + 1)

\* chess.load_pgn(pgn): reset(), then the [SetUp "1"] [FEN ...] header, then the
\* moves; a PGN is [setUp, fen, moves]
load_pgn(ch, pgn) ==
    LET r0 == reset
    IN  IF pgn.setUp
        THEN LET l == load(r0, pgn.fen)
             IN  IF ~l.ok THEN [ok |-> FALSE, chess |-> r0]
                 ELSE playMoves(l.chess, pgn.moves, 1)
        ELSE playMoves(r0, pgn.moves, 1)

(***************************************************************************)
(* ChessImageGenerator: constructor                                        *)
(***************************************************************************)
Construct(o) ==
    LET light == OrDefault(o.light, defaultLight)
        dark  == OrDefault(o.dark, defaultDark)
    IN  [size       |-> OrDefault(o.size, defaultSize),
         light      |-> light,
         dark       |-> dark,
         highlight  |-> OrDefault(o.highlight, defaultHighlight),
         style      |-> OrDefault(o.style, defaultStyle),
         drawLabels |-> NotStrictlyFalse(o.drawLabels),
         labelLight |-> OrDefault(o.labelLight, dark),
         labelDark  |-> OrDefault(o.labelDark, light),
         flipped    |-> NotStrictlyTrue(o.flipped)]

(***************************************************************************)
(* loadArray                                                               *)
(***************************************************************************)
\* the body of the two loops for one entry array[i][j] (i, j from 0)
loadArrayEntry(b, array, i, j) ==
    LET e == array[i + 1][j + 1]
    IN  IF e # "" /\ toLowerCase(e) \in black
        THEN put(b, [type |-> toLowerCase(e), color |-> IF e \in white THEN "w" ELSE "b"],
                 <<cols[j + 1], 8 - i>>)
        ELSE b

\* the two loops from entry (i, j) on.  (The test on the board makes the checker
\* compute the board of one iteration before it enters the next.)
RECURSIVE loadArrayCells(_, _, _, _)
loadArrayCells(b, array, i, j) ==
    IF DOMAIN b # SQUARES \/ i >= Len(array) THEN b
    ELSE IF j >= Len(array[i + 1]) THEN loadArrayCells(b, array, i + 1, 0)
    ELSE loadArrayCells(loadArrayEntry(b, array, i, j), array, i, j + 1)

(***************************************************************************)
(* getSquareHighlight                                                      *)
(***************************************************************************)
\* a highlight map is undefined, null or [t |-> "object", m |-> function on its keys];
\* the square asked for is never an empty string, so !square is left out
getSquareHighlightAlwaysDefault(square) ==
    IF ~Truthy(highlightedSquares) \/ square \notin DOMAIN highlightedSquares.m
    THEN Null
    ELSE IF ~Truthy(highlightedSquares.m[square]) THEN Null ELSE JSStr(cfg.highlight)
getSquareHighlight(square) ==
    IF ~Truthy(highlightedSquares) \/ square \notin DOMAIN highlightedSquares.m
    THEN Null
    ELSE LET squareHighlight == highlightedSquares.m[square]
         IN  IF ~Truthy(squareHighlight) THEN Null
             ELSE IF squareHighlight.t = "string" THEN squareHighlight
             ELSE JSStr(cfg.highlight)

(***************************************************************************)
(* generateBuffer: the cell loop                                           *)
(***************************************************************************)
\* const row = this.flipped ? r => 7 - r + 1 : r => r + 1
rowOfSameBothWays(flipped, r) == r + 1
rowOf(flipped, r) == IF flipped THEN 7 - r + 1 ELSE r + 1

\* const col = this.flipped ? c => cols[7 - c] : c => cols[c] (cols is indexed from 0)
colOfSameBothWays(flipped, c) == cols[c + 1]
colOf(flipped, c) == IF flipped THEN cols[(7 - c) + 1] ELSE cols[c + 1]

row(r) == rowOf(cfg.flipped, r)
col(c) == colOf(cfg.flipped, c)

\* A coordinate is the JavaScript number n / d, kept as a fraction in lowest terms.
\* this.size / 8 and its products with 0..7 are exact in double precision for an
\* integer size (8 is a power of two), so the fraction is the number the code holds:
\* size 100 gives cells of 25/2 = 12.5.
RECURSIVE gcd(_, _)
gcd(a, b) == IF b = 0 THEN a ELSE gcd(b, a % b)
Frac(n, d) == LET g == gcd(n, d) IN [num |-> n \div g, den |-> d \div g]

\* const x = (this.size / 8) * j; const y = (this.size / 8) * (7 - i);
\* const width = this.size / 8; const height = this.size / 8
CellX(j) == Frac(cfg.size * j, 8)
CellY(i) == Frac(cfg.size * (7 - i), 8)
CellW    == Frac(cfg.size, 8)

\* const square = col(j) + row(i)
CellSquare(i, j) == <<col(j), row(i)>>

DrawOp(kind, op, i, j, style, text, image) ==
    [kind |-> kind, op |-> op, x |-> CellX(j), y |-> CellY(i), w |-> CellW, h |-> CellW,
     style |-> style, text |-> text, image |-> image]

\* ctx.fillStyle = this.light; ctx.fillRect(0, 0, this.size, this.size)
BaseFill ==
    [kind |-> "base", op |-> "fillRect", x |-> Frac(0, 1), y |-> Frac(0, 1),
     w |-> Frac(cfg.size, 1), h |-> Frac(cfg.size, 1),
     style |-> cfg.light, text |-> "", image |-> <<>>]

DarkFill(i, j) ==
    IF (i + j) % 2 = 0
    THEN <<DrawOp("dark", "fillRect", i, j, cfg.dark, "", <<>>)>>
    ELSE <<>>

\* the text offsets inside the cell depend on the font metrics and are left out
RankLabel(i, j) ==
    IF cfg.drawLabels /\ j = 0
    THEN <<DrawOp("rank", "fillText", i, j,
                  IF i % 2 = 0 THEN cfg.labelDark ELSE cfg.labelLight,
                  NumberToString(row(i)), <<>>)>>
    ELSE <<>>

FileLabel(i, j) ==
    IF cfg.drawLabels /\ i = 0
    THEN <<DrawOp("file", "fillText", i, j,
                  IF j % 2 = 0 THEN cfg.labelDark ELSE cfg.labelLight,
                  col(j), <<>>)>>
    ELSE <<>>

HighlightFill(i, j) ==
    LET highlight == getSquareHighlight(CellSquare(i, j))
    IN  IF Truthy(highlight)
        THEN <<DrawOp("highlight", "fillRect", i, j, highlight.s, "", <<>>)>>
        ELSE <<>>

\* what one iteration draws before it looks at the piece
CellOpsHighlightFirst(i, j) ==
    HighlightFill(i, j) \o DarkFill(i, j) \o RankLabel(i, j) \o FileLabel(i, j)
CellOps(i, j) == DarkFill(i, j) \o RankLabel(i, j) \o FileLabel(i, j) \o HighlightFill(i, j)

\* const piece = this.chess.get(square)
CellPieceOfSnapshot(square) ==
    get(IF calls[1].pc = "awaiting" THEN calls[1].startChess ELSE chess, square)
CellPiece(square) == get(chess, square)

\* piece && piece.type !== "" && black.includes(piece.type.toLowerCase())
HasSprite(piece) == piece # NoPiece /\ piece.type # "" /\ toLowerCase(piece.type) \in black

\* resources/${style}/${filePaths[color + type]}.png
ImagePath(piece) == <<"resources", cfg.style, filePaths(piece.color, piece.type)>>

\* what the iterations a..b (cell n is i = n \div 8, j = n % 8) draw before their
\* pieces, in loop order
RECURSIVE CellRangeOps(_, _)
CellRangeOps(a, b) ==
    IF a > b THEN <<>>
    ELSE IF a = b THEN CellOps(a \div 8, a % 8)
    ELSE LET mid == (a + b) \div 2
         IN  CellRangeOps(a, mid) \o CellRangeOps(mid + 1, b)

\* the loop from cell n up to the next await loadImage, or to its end: the
\* iterations run as long as the square they look at holds no sprite
RunFrom(n, log) ==
    LET occupied == {m \in n..63 : HasSprite(CellPiece(CellSquare(m \div 8, m % 8)))}
    IN  IF occupied = {}
        THEN [pc |-> "done", cursor |-> 64, canvas |-> log \o CellRangeOps(n, 63),
              pending |-> <<>>]
        ELSE LET stop == CHOOSE m \in occupied : \A k \in occupied : m <= k
             IN  [pc |-> "awaiting", cursor |-> stop,
                  canvas |-> log \o CellRangeOps(n, stop),
                  pending |-> ImagePath(CellPiece(CellSquare(stop \div 8, stop % 8)))]

\* ctx.drawImage(imageFile, x, y, width, height) of the suspended cell
SpriteDraw(n, image) == DrawOp("piece", "drawImage", n \div 8, n % 8, "", "", image)


\* toBuffer(canvas)
NoBuffer == [encoded |-> FALSE, image |-> <<>>]
toBuffer(c) == [encoded |-> TRUE, image |-> c]

\* if (!this.ready) throw new Error("Load a position first")
NotReadyNever == FALSE
NotReady == ~ready

(***************************************************************************)
(* Bounds                                                                  *)
(***************************************************************************)
\* calls made on the instance while a render is suspended
MaxRace == 2

\* generateBuffer / generatePNG calls whose promise the caller holds at one time
MaxCalls == 2

\* fs.open calls of one run
MaxFiles == 2

Slots == 1..MaxCalls

\* One call of generateBuffer or generatePNG:
\*   kind       none (free slot), buffer, png
\*   path       the pngPath of generatePNG
\*   pc         idle (free slot); awaiting: suspended in await loadImage; returned:
\*              the generateBuffer called by generatePNG has settled and the
\*              continuation of generatePNG after its await has not run yet;
\*              done / failed: the promise of the call is fulfilled / rejected
\*   cursor     8*i + j of the cell whose sprite load is awaited (64 after the loop)
\*   pending    the sprite path computed before the await of the suspended cell
\*   canvas     the draw operations issued on the ctx of this call, in order
\*   buffer     what toBuffer(canvas) returned
\*   error      the rejection reason
\*   startChess history: this.chess when the call was made
\*   chain      the index in files of the fs.open this call made (0: none)
NoCall == [kind |-> "none", path |-> "", pc |-> "idle", cursor |-> 0, pending |-> <<>>,
           canvas |-> <<>>, buffer |-> NoBuffer, error |-> "", startChess |-> reset,
           chain |-> 0]

\* written: fs.write has called back with the whole buffer of the call written
NewFile(path) == [state |-> "opening", path |-> path, written |-> FALSE]

InFlight == {k \in Slots : calls[k].pc # "idle"}

(***************************************************************************)
(* Inputs                                                                  *)
(***************************************************************************)
\* "8/8/8/8/8/8/8/" and "4k3/8/8/8/8/8/8/"
SevenEmpty == <<"8","/","8","/","8","/","8","/","8","/","8","/","8","/">>
KingTop    == <<"4","k","3","/","8","/","8","/","8","/","8","/","8","/","8","/">>

FEN_Ke1      == << SevenEmpty \o <<"4","K","3">>, "w", "-", <<"-">>, 0, 1 >>
FEN_Kings    == << KingTop \o <<"4","K","3">>, "w", "-", <<"-">>, 0, 1 >>
FEN_BadRow   == << SevenEmpty \o <<"4","K","2">>, "w", "-", <<"-">>, 0, 1 >>
FEN_BadPiece == << SevenEmpty \o <<"4","X","3">>, "w", "-", <<"-">>, 0, 1 >>
FEN_Short    == << KingTop \o <<"4","K","3">>, "w", "-", <<"-">>, 0 >>

FENs == {FEN_Ke1, FEN_Kings, FEN_BadRow, FEN_BadPiece, FEN_Short}

\* [SetUp "1"] [FEN "4k3/8/8/8/8/8/8/4K3 w - - 0 1"] 1. Kd1 Kd8
PGN_Ok  == [setUp |-> TRUE, fen |-> FEN_Kings, moves |-> << <<"K","d","1">>, <<"K","d","8">> >>]
\* the same game with a second move that is no move
PGN_Bad == [setUp |-> TRUE, fen |-> FEN_Kings, moves |-> << <<"K","f","2">>, <<"Z","z">> >>]
\* a first move the king cannot make
PGN_Illegal == [setUp |-> TRUE, fen |-> FEN_Ke1, moves |-> << <<"K","e","3">> >>]

PGNs == {PGN_Ok, PGN_Bad, PGN_Illegal}

EmptyRow == <<"", "", "", "", "", "", "", "">>
GRID_Kings ==
    << <<"", "", "", "", "k", "", "", "">>, EmptyRow, EmptyRow,
       <<"", "", "", " ", "", "", "", "">>,
       <<"", "", "", "", "x", "X", "", "">>, EmptyRow, EmptyRow,
       <<"", "", "", "", "K", "", "", "">> >>
GRID_Pieces ==
    << <<"", "n", "", "", "", "", "", "">>, EmptyRow, EmptyRow, EmptyRow, EmptyRow, EmptyRow,
       <<"P", "", "", "", "", "", "", "">>,
       <<"", "", "", "Q", "", "", "", "">> >>
GRID_TwoKings ==
    << EmptyRow, EmptyRow, EmptyRow, EmptyRow, EmptyRow, EmptyRow, EmptyRow,
       <<"K", "", "", "", "K", "", "", "">> >>

\* a grid whose only entry is the Kelvin sign, on e4, and an accented capital
GRID_Kelvin ==
    << EmptyRow, EmptyRow, EmptyRow, EmptyRow,
       <<"", "", "", "", "U+212A", "U+00C9", "", "">>, EmptyRow, EmptyRow, EmptyRow >>

Grids == {GRID_Kings, GRID_Pieces, GRID_TwoKings, GRID_Kelvin}

JSObject(m) == [t |-> "object", m |-> m]
HL_Empty    == JSObject(<<>>)
HL_E4True   == JSObject(<<"e", 4>> :> JSBool(TRUE))
HL_E4Color  == JSObject(<<"e", 4>> :> JSStr("#ff0000"))
HL_Mixed    == JSObject(<<"e", 4>> :> JSBool(FALSE) @@ <<"e", 1>> :> JSNum(1)
                        @@ <<"a", 8>> :> JSStr("") @@ <<"h", 8>> :> JSNum(0))
HL_OffBoard == JSObject(<<"z", 9>> :> JSBool(TRUE) @@ <<"e", 9>> :> JSStr("#00ff00"))

Highlights == {Undefined, Null, HL_Empty, HL_E4True, HL_E4Color, HL_Mixed, HL_OffBoard}

Paths == {"board.png"}

NoOptions == [size |-> Undefined, light |-> Undefined, dark |-> Undefined,
              highlight |-> Undefined, style |-> Undefined, drawLabels |-> Undefined,
              labelLight |-> Undefined, labelDark |-> Undefined, flipped |-> Undefined]

OptionSets ==
    {NoOptions,
     [NoOptions EXCEPT !.size = JSNum(400)],
     [NoOptions EXCEPT !.size = JSNum(400), !.flipped = JSBool(TRUE)],
     [NoOptions EXCEPT !.size = JSNum(400), !.flipped = JSBool(FALSE)],
     [NoOptions EXCEPT !.size = JSNum(100), !.flipped = JSBool(TRUE)],
     [NoOptions EXCEPT !.flipped = JSBool(TRUE), !.drawLabels = JSBool(FALSE),
                       !.highlight = JSStr("yellow")]}

(***************************************************************************)
(* State after new ChessImageGenerator(options)                            *)
(***************************************************************************)
Init ==
    /\ options \in OptionSets
    /\ cfg = Construct(options)
    /\ ready = FALSE
    /\ chess = reset
    /\ highlightedSquares = HL_Empty
    /\ calls = [k \in Slots |-> NoCall]
    /\ files = <<>>
    /\ uncaught = FALSE
    /\ thrown = ""
    /\ everLoaded = FALSE
    /\ races = 0

(***************************************************************************)
(* Synchronous methods                                                     *)
(***************************************************************************)
loadPGN(pgn) ==
    LET r == load_pgn(chess, pgn)
    IN  /\ chess' = r.chess
        /\ IF ~r.ok
           THEN /\ thrown' = "PGN could not be read successfully"
                /\ UNCHANGED <<ready, everLoaded>>
           ELSE /\ ready' = TRUE
                /\ everLoaded' = TRUE
                /\ thrown' = ""
        /\ UNCHANGED <<options, cfg, highlightedSquares, calls, files, uncaught>>

loadFEN(fen) ==
    LET r == load(chess, fen)
    IN  /\ chess' = r.chess
        /\ IF ~r.ok
           THEN /\ thrown' = "FEN could not be read successfully"
                /\ UNCHANGED <<ready, everLoaded>>
           ELSE /\ ready' = TRUE
                /\ everLoaded' = TRUE
                /\ thrown' = ""
        /\ UNCHANGED <<options, cfg, highlightedSquares, calls, files, uncaught>>

loadArray(array) ==
    /\ chess' = [board |-> loadArrayCells(clear.board, array, 0, 0), turn |-> clear.turn]
    /\ ready' = TRUE
    /\ everLoaded' = TRUE
    /\ thrown' = ""
    /\ UNCHANGED <<options, cfg, highlightedSquares, calls, files, uncaught>>

setHighlightedSquares(squares) ==
    /\ highlightedSquares' = squares
    /\ UNCHANGED <<options, cfg, ready, chess, thrown, everLoaded, calls, files, uncaught>>

(***************************************************************************)
(* generateBuffer / generatePNG                                            *)
(***************************************************************************)
\* the end of the loop: return toBuffer(canvas).  The promise of generateBuffer is
\* fulfilled; a generatePNG that awaits it goes on in a later step (AfterBuffer)
Finish(c, log) ==
    [c EXCEPT !.pc = IF c.kind = "png" THEN "returned" ELSE "done",
              !.cursor = 64,
              !.pending = <<>>,
              !.canvas = log,
              !.buffer = toBuffer(log)]

\* the loop of call c ran from cell n on, drawing on log, until it suspended or ended
Advance(c, n, log) ==
    LET r == RunFrom(n, log)
    IN  IF r.pc = "done"
        THEN Finish(c, r.canvas)
        ELSE [c EXCEPT !.pc = "awaiting",
                       !.cursor = r.cursor,
                       !.pending = r.pending,
                       !.canvas = r.canvas]

\* both methods up to the first await: the ready check, a canvas of the call's
\* own, the base fill, the loop up to the first sprite.  A call is accepted
\* whatever the earlier calls and their files are doing; it takes the first free slot
Start(kind, path) ==
    /\ \E k \in Slots : calls[k].pc = "idle"
    /\ LET k == CHOOSE s \in Slots :
                   calls[s].pc = "idle" /\ \A t \in Slots : calls[t].pc = "idle" => s <= t
           c == [NoCall EXCEPT !.kind = kind, !.path = path, !.startChess = chess]
       IN  calls' = [calls EXCEPT ![k] =
                        IF NotReady
                        THEN [c EXCEPT !.pc = "failed", !.error = "Load a position first"]
                        ELSE Advance(c, 0, <<BaseFill>>)]
    /\ UNCHANGED <<options, cfg, ready, chess, highlightedSquares, files, uncaught, thrown,
                   everLoaded>>

generateBuffer == Start("buffer", "")

generatePNG(pngPath) == Start("png", pngPath)

\* loadImage of call k resolved: the sprite is drawn and the loop goes on
SpriteLoaded(k) ==
    /\ calls[k].pc = "awaiting"
    /\ calls' = [calls EXCEPT ![k] =
                    Advance(@, @.cursor + 1, Append(@.canvas, SpriteDraw(@.cursor, @.pending)))]
    /\ UNCHANGED <<options, cfg, ready, chess, highlightedSquares, files, uncaught, thrown,
                   everLoaded, races>>

\* loadImage of call k rejected: generateBuffer rejects; a generatePNG that awaits
\* it rethrows in its continuation
SpriteLoadFails(k) ==
    /\ calls[k].pc = "awaiting"
    /\ calls' = [calls EXCEPT ![k].pc = IF calls[k].kind = "png" THEN "returned" ELSE "failed",
                              ![k].error = "loadImage failed"]
    /\ UNCHANGED <<options, cfg, ready, chess, highlightedSquares, files, uncaught, thrown,
                   everLoaded, races>>

\* generatePNG after const buffer = await this.generateBuffer(): fs.open is called
\* and the method returns, its promise fulfilled; a rejected generateBuffer
\* rejects generatePNG
AfterBuffer(k) ==
    /\ calls[k].pc = "returned"
    /\ IF calls[k].error = ""
       THEN /\ files' = Append(files, NewFile(calls[k].path))
            /\ calls' = [calls EXCEPT ![k].pc = "done", ![k].chain = Len(files) + 1]
       ELSE /\ calls' = [calls EXCEPT ![k].pc = "failed"]
            /\ UNCHANGED files
    /\ UNCHANGED <<options, cfg, ready, chess, highlightedSquares, uncaught, thrown,
                   everLoaded, races>>

\* the caller takes the settled promise of call k
Settle(k) ==
    /\ calls[k].pc \in {"done", "failed"}
    /\ calls' = [calls EXCEPT ![k] = NoCall]
    /\ races' = IF InFlight = {k} THEN 0 ELSE races
    /\ UNCHANGED <<options, cfg, ready, chess, highlightedSquares, files, uncaught, thrown,
                   everLoaded>>

(***************************************************************************)
(* The fs callbacks of generatePNG.  They run after generatePNG has        *)
(* returned; an Error thrown in one is thrown into the event loop.  A      *)
(* callback is a task of the event loop: it does not run while the         *)
(* continuation of an await on a settled promise is still queued.          *)
(***************************************************************************)
FsStep(f, from, to, throws, whole) ==
    /\ files[f].state = from
    /\ \A k \in Slots : calls[k].pc # "returned"
    /\ files' = [files EXCEPT ![f].state = to,
                              ![f].written = IF to = "closing" THEN whole ELSE @]
    /\ uncaught' = throws
    /\ UNCHANGED <<options, cfg, ready, chess, highlightedSquares, calls, thrown,
                   everLoaded, races>>

\* fs.open called back without err: fs.write is issued
OpenOk == \E f \in 1..Len(files) : FsStep(f, "opening", "writing", FALSE, FALSE)

\* fs.open called back with err: throw new Error("could not open file: ...")
OpenErr == \E f \in 1..Len(files) : FsStep(f, "opening", "openError", TRUE, FALSE)

\* fs.write called back without writeError, having written the whole buffer or a
\* part of it (the callback's bytesWritten, which the code does not read):
\* fs.close is issued
WriteOk ==
    \E f \in 1..Len(files), whole \in BOOLEAN : FsStep(f, "writing", "closing", FALSE, whole)

\* fs.write called back with writeError: throw new Error("error writing file: ...")
WriteErr == \E f \in 1..Len(files) : FsStep(f, "writing", "writeError", TRUE, FALSE)

\* fs.close called back
CloseDone == \E f \in 1..Len(files) : FsStep(f, "closing", "closed", FALSE, FALSE)

(***************************************************************************)
(* Specifications                                                          *)
(***************************************************************************)
\* a caller that awaits every promise before its next call
Sequential == InFlight = {} /\ races' = races

\* a caller that may also call while a render is suspended in await loadImage
Interleaved ==
    \/ InFlight = {} /\ races' = races
    \/ /\ \E k \in Slots : calls[k].pc = "awaiting"
       /\ races < MaxRace
       /\ races' = races + 1

Render ==
    \E k \in Slots :
        \/ SpriteLoaded(k)
        \/ SpriteLoadFails(k)
        \/ Settle(k)

Next ==
    \/ \E pgn \in PGNs : Sequential /\ loadPGN(pgn)
    \/ \E fen \in FENs : Sequential /\ loadFEN(fen)
    \/ \E array \in Grids : Sequential /\ loadArray(array)
    \/ \E squares \in Highlights : Sequential /\ setHighlightedSquares(squares)
    \/ Sequential /\ generateBuffer
    \/ Render

Spec == Init /\ [][Next]_vars

\* generatePNG and its fs callbacks, on fewer inputs, for a caller that awaits every
\* promise and writes at most MaxFiles files; an uncaught exception ends the process
PngOptions == {NoOptions, [NoOptions EXCEPT !.size = JSNum(400), !.flipped = JSBool(TRUE)]}
PngPGNs == {PGN_Bad}
PngFENs == {FEN_Ke1, FEN_BadRow}
PngGrids == {GRID_Pieces}
PngHighlights == {Undefined, HL_E4True}

InitPng == Init /\ options \in PngOptions

NextPng ==
    /\ ~uncaught
    /\ \/ \E pgn \in PngPGNs : Sequential /\ loadPGN(pgn)
       \/ \E fen \in PngFENs : Sequential /\ loadFEN(fen)
       \/ \E array \in PngGrids : Sequential /\ loadArray(array)
       \/ \E squares \in PngHighlights : Sequential /\ setHighlightedSquares(squares)
       \/ Sequential /\ generateBuffer
       \/ \E pngPath \in Paths : Sequential /\ Len(files) < MaxFiles /\ generatePNG(pngPath)
       \/ Render
       \/ \E k \in Slots : AfterBuffer(k)
       \/ OpenOk
       \/ OpenErr
       \/ WriteOk
       \/ WriteErr
       \/ CloseDone

SpecPng == InitPng /\ [][NextPng]_vars

\* calls made while a render is suspended, a second generateBuffer among them, on
\* fewer inputs
RaceOptions == {[NoOptions EXCEPT !.size = JSNum(400), !.flipped = fl] :
                   fl \in {Undefined, JSBool(TRUE)}}
RacePGNs == {PGN_Bad}
RaceFENs == {FEN_Ke1, FEN_BadRow}
RaceGrids == {GRID_Kings}
RaceHighlights == {HL_Empty, HL_Mixed}

InitConc == Init /\ options \in RaceOptions

NextConc ==
    \/ \E pgn \in RacePGNs : Interleaved /\ loadPGN(pgn)
    \/ \E fen \in RaceFENs : Interleaved /\ loadFEN(fen)
    \/ \E array \in RaceGrids : Interleaved /\ loadArray(array)
    \/ \E squares \in RaceHighlights : Interleaved /\ setHighlightedSquares(squares)
    \/ Interleaved /\ generateBuffer
    \/ Render

SpecConc == InitConc /\ [][NextConc]_vars

(***************************************************************************)
(* Properties                                                              *)
(***************************************************************************)
\* a / b for two coordinates, rounded down
Quot(a, b) == (a.num * b.den) \div (a.den * b.num)

\* the loop cell 8*i + j a cell-sized draw operation lies on (y = cell * (7 - i))
CellOfOp(op) == 8 * (7 - Quot(op.y, op.w)) + Quot(op.x, op.w)

\* the square iteration n looks at, under either value of this.flipped
SquareOf(flipped, n) == <<colOf(flipped, n % 8), rowOf(flipped, n \div 8)>>

\* the draw operations of one kind on the canvas of call c
OpsOfKind(c, kind) == {k \in 1..Len(c.canvas) : c.canvas[k].kind = kind}

Occupied(ch) == {s \in SQUARES : HasSprite(ch.board[s])}

\* C1: as long as no loadPGN, loadFEN or loadArray has succeeded (failed loads and
\* setHighlightedSquares calls included), every generateBuffer and generatePNG
\* call ends with the error "Load a position first": nothing is drawn, nothing is
\* encoded and no file is opened or written.
C1_NotReadyFails ==
    ~everLoaded =>
        /\ \A k \in InFlight :
              /\ calls[k].pc = "failed"
              /\ calls[k].error = "Load a position first"
              /\ calls[k].canvas = <<>>
              /\ calls[k].buffer = NoBuffer
              /\ calls[k].chain = 0
        /\ files = <<>>

\* generatePNG was refused after a load had failed and a highlight map had been set
C1_Witness ==
    /\ ~everLoaded
    /\ thrown = "PGN could not be read successfully"
    /\ highlightedSquares # HL_Empty
    /\ \E k \in Slots :
          /\ calls[k].kind = "png"
          /\ calls[k].pc = "failed"
          /\ calls[k].error = "Load a position first"

\* the same refusal for generateBuffer
C1_WitnessBuffer ==
    /\ ~everLoaded
    /\ thrown = "FEN could not be read successfully"
    /\ \E k \in Slots : calls[k].kind = "buffer" /\ calls[k].pc = "failed"

\* C2 (as claimed): a loadPGN or loadFEN that throws changes nothing: this.ready
\* and the position held by the engine are what they were before the call.
C2_FailedLoadChangesNothing ==
    [][ (/\ InFlight = {}
         /\ thrown' # ""
         /\ \/ \E pgn \in PGNs : loadPGN(pgn)
            \/ \E fen \in FENs : loadFEN(fen))
        => (ready' = ready /\ chess' = chess) ]_vars

\* C2, the part that holds: a failed load never changes this.ready, and a failed
\* loadFEN leaves the position alone.
C2_FailedLoadKeepsReady ==
    [][ (/\ InFlight = {}
         /\ thrown' # ""
         /\ \/ \E pgn \in PGNs : loadPGN(pgn)
            \/ \E fen \in FENs : loadFEN(fen))
        => /\ ready' = ready
           /\ thrown' = "FEN could not be read successfully" => chess' = chess ]_vars

\* the piece an entry of the grid stands for
GridPiece(e) ==
    IF e \in white THEN [type |-> toLowerCase(e), color |-> "w"]
    ELSE IF e \in black THEN [type |-> e, color |-> "b"]
    ELSE NoPiece

\* C3 (as claimed): after loadArray(grid) the engine holds exactly the grid's
\* placement, entry [r][c] on square cols[c] + (8 - r), white for an upper-case
\* letter and black for a lower-case one, every other square empty, and the
\* renderer is ready.
C3_LoadArrayReadsBack ==
    [][ \A array \in Grids :
          (InFlight = {} /\ loadArray(array)) =>
             /\ ready'
             /\ \A r \in 0..7, c \in 0..7 :
                   get(chess', <<cols[c + 1], 8 - r>>) = GridPiece(array[r + 1][c + 1]) ]_vars

\* where the sprite of square s belongs when white is at the bottom: file a at the
\* left edge, rank 1 in the bottom pixel row
UnflippedX(s) == Frac(cfg.size * (FileIndex(s[1]) - 1), 8)
UnflippedY(s) == Frac(cfg.size * (8 - s[2]), 8)

\* C4 (as claimed): a renderer constructed without flipped, or with flipped
\* undefined or false, draws the piece of square (f, k) at x = index(f) * cell and
\* y = (8 - k) * cell, one sprite per occupied square and no other sprite.
C4_DefaultIsWhiteAtBottom ==
    \A c \in Slots :
        (NotStrictlyTrue(options.flipped) /\ calls[c].pc = "done") =>
            /\ Cardinality(OpsOfKind(calls[c], "piece")) = Cardinality(Occupied(chess))
            /\ \A s \in Occupied(chess) :
                  \E k \in OpsOfKind(calls[c], "piece") :
                     /\ calls[c].canvas[k].x = UnflippedX(s)
                     /\ calls[c].canvas[k].y = UnflippedY(s)
                     /\ calls[c].canvas[k].image = ImagePath(chess.board[s])

\* pixel column and pixel row (0 at the left, 0 at the top) of loop cell n
PixelCol(n) == Quot(CellX(n % 8), CellW)
PixelRow(n) == Quot(CellY(n \div 8), CellW)

\* C5: the two orientations are 180 degree rotations of each other: the square
\* drawn at pixel column c and pixel row r in one orientation is drawn at column
\* 7 - c and row 7 - r in the other; in each orientation the 64 cells map
\* one-to-one onto the 64 squares, and a finished render holds the sprite of every
\* occupied square exactly once, on the cell of that square.
C5_FlipIsRotation ==
    \A c \in Slots :
        calls[c].pc = "done" =>
            /\ \A fl \in BOOLEAN : {SquareOf(fl, n) : n \in 0..63} = SQUARES
            /\ \A n \in 0..63, m \in 0..63 :
                  SquareOf(cfg.flipped, n) = SquareOf(~cfg.flipped, m) =>
                     /\ PixelCol(m) = 7 - PixelCol(n)
                     /\ PixelRow(m) = 7 - PixelRow(n)
            /\ Cardinality(OpsOfKind(calls[c], "piece")) = Cardinality(Occupied(chess))
            /\ \A k \in OpsOfKind(calls[c], "piece") :
                  calls[c].canvas[k].image
                     = ImagePath(get(chess, SquareOf(cfg.flipped, CellOfOp(calls[c].canvas[k]))))

\* a finished render of a position with both kings by a renderer built with flipped: true
C5_Witness ==
    \E c \in Slots :
        /\ calls[c].pc = "done"
        /\ options.flipped = JSBool(TRUE)
        /\ Cardinality(OpsOfKind(calls[c], "piece")) = 2
        /\ \E k \in OpsOfKind(calls[c], "piece") :
              /\ calls[c].canvas[k].image = <<"resources", "merida", "BlackKing">>
              /\ calls[c].canvas[k].y = Frac(0, 1)

\* C6: the cell a square is drawn on is dark in one orientation exactly if it is
\* dark in the other, for all 64 squares; the dark fills of a finished render are
\* the 32 cells with (i + j) even.
C6_SquareColourKeptByFlip ==
    \A c \in Slots :
        calls[c].pc = "done" =>
            /\ \A n \in 0..63, m \in 0..63 :
                  SquareOf(cfg.flipped, n) = SquareOf(~cfg.flipped, m) =>
                     (DarkFill(n \div 8, n % 8) # <<>>) = (DarkFill(m \div 8, m % 8) # <<>>)
            /\ {CellOfOp(calls[c].canvas[k]) : k \in OpsOfKind(calls[c], "dark")}
                  = {n \in 0..63 : ((n \div 8) + (n % 8)) % 2 = 0}
            /\ Cardinality(OpsOfKind(calls[c], "dark")) = 32
            /\ \E n \in 0..63 :
                  SquareOf(cfg.flipped, n) = <<"a", 1>> /\ DarkFill(n \div 8, n % 8) # <<>>

\* a finished render of the unflipped orientation (this.flipped false)
C6_Witness ==
    \E c \in Slots :
        /\ calls[c].pc = "done"
        /\ ~cfg.flipped
        /\ Cardinality(OpsOfKind(calls[c], "dark")) = 32
        /\ Occupied(chess) # {}

\* the highlight colour the map gives a square, "" for none: none when the map is
\* unset, the square is absent or its value is falsy; the value when it is a
\* string; the configured default for any other truthy value
HighlightTold(square) ==
    IF highlightedSquares.t # "object" THEN ""
    ELSE IF square \notin DOMAIN highlightedSquares.m THEN ""
    ELSE LET v == highlightedSquares.m[square]
         IN  IF v.t = "string" THEN v.s
             ELSE IF v.t = "boolean" THEN (IF v.b THEN cfg.highlight ELSE "")
             ELSE IF v.t = "number" THEN (IF v.n = 0 THEN "" ELSE cfg.highlight)
             ELSE IF v.t \in {"undefined", "null"} THEN ""
             ELSE cfg.highlight

\* C7: getSquareHighlight gives no highlight for an unset map, an absent square or
\* a falsy value, the value itself for a string and the default colour for any
\* other truthy value; a finished render fills exactly the squares that resolve to
\* a highlight, each with its colour, so a key that is no square fills nothing.
C7_HighlightResolution ==
    /\ \A s \in SQUARES \cup {<<"z", 9>>, <<"e", 9>>} :
          LET h == getSquareHighlight(s)
          IN  IF HighlightTold(s) = "" THEN h = Null ELSE h = JSStr(HighlightTold(s))
    /\ \A c \in Slots :
          calls[c].pc = "done" =>
             /\ \A k \in OpsOfKind(calls[c], "highlight") :
                   calls[c].canvas[k].style
                      = HighlightTold(SquareOf(cfg.flipped, CellOfOp(calls[c].canvas[k])))
             /\ {SquareOf(cfg.flipped, CellOfOp(calls[c].canvas[k])) :
                    k \in OpsOfKind(calls[c], "highlight")}
                   = {s \in SQUARES : HighlightTold(s) # ""}
             /\ Cardinality(OpsOfKind(calls[c], "highlight"))
                   = Cardinality({s \in SQUARES : HighlightTold(s) # ""})

\* a finished render under {e4: "#ff0000"}: one highlight fill, of that colour
C7_Witness ==
    \E c \in Slots :
        /\ calls[c].pc = "done"
        /\ highlightedSquares.t = "object"
        /\ DOMAIN highlightedSquares.m = {<<"e", 4>>}
        /\ highlightedSquares.m[<<"e", 4>>] = JSStr("#ff0000")
        /\ Cardinality(OpsOfKind(calls[c], "highlight")) = 1
        /\ \A k \in OpsOfKind(calls[c], "highlight") :
              /\ calls[c].canvas[k].style = "#ff0000"
              /\ SquareOf(cfg.flipped, CellOfOp(calls[c].canvas[k])) = <<"e", 4>>

\* C8 (as claimed): the promise of generatePNG is fulfilled only once the buffer
\* has been written in full to the file and the file closed, and an open or write
\* error rejects that promise instead of being thrown elsewhere.
C8_PngSettlesAfterWrite ==
    /\ \A k \in Slots :
          (calls[k].kind = "png" /\ calls[k].pc = "done") =>
             /\ calls[k].chain \in 1..Len(files)
             /\ files[calls[k].chain].state = "closed"
             /\ files[calls[k].chain].written
    /\ \A f \in 1..Len(files) : files[f].state \in {"openError", "writeError"} => ~uncaught

\* the place of a draw operation in the order of one render: the cell, then dark
\* fill, rank label, file label, highlight fill, sprite
Phase(kind) ==
    CASE kind = "dark" -> 1 [] kind = "rank" -> 2 [] kind = "file" -> 3
      [] kind = "highlight" -> 4 [] kind = "piece" -> 5 [] OTHER -> 0
OrderKey(op) == IF op.kind = "base" THEN 0 ELSE 8 * CellOfOp(op) + Phase(op.kind)

\* C9: one render draws the base fill first, then cell after cell, i outer and j
\* inner, in each cell dark fill (only on (i + j) even), rank label (only with
\* labels, j = 0), file label (only with labels, i = 0), highlight fill (only for a
\* highlighted square), sprite (only on an occupied square); while a sprite load
\* is awaited nothing of a later cell has been drawn, and the canvas is encoded
\* only after the 64 cells.
C9_DrawOrder ==
    \A c \in Slots :
        LET canvas == calls[c].canvas
        IN  /\ canvas # <<>> =>
                  /\ canvas[1] = BaseFill
                  /\ \A k \in 1..(Len(canvas) - 1) :
                        OrderKey(canvas[k]) < OrderKey(canvas[k + 1])
            /\ \A k \in 1..Len(canvas) :
                  LET op == canvas[k]
                      i == CellOfOp(op) \div 8
                      j == CellOfOp(op) % 8
                  IN  /\ op.kind = "dark" => (i + j) % 2 = 0
                      /\ op.kind = "rank" => cfg.drawLabels /\ j = 0
                      /\ op.kind = "file" => cfg.drawLabels /\ i = 0
                      /\ op.kind = "highlight" =>
                            HighlightTold(SquareOf(cfg.flipped, 8 * i + j)) # ""
                      /\ op.kind = "piece" =>
                            HasSprite(get(chess, SquareOf(cfg.flipped, 8 * i + j)))
            /\ calls[c].pc = "awaiting" =>
                  /\ \A k \in 2..Len(canvas) : CellOfOp(canvas[k]) <= calls[c].cursor
                  /\ \A k \in OpsOfKind(calls[c], "piece") :
                        CellOfOp(canvas[k]) < calls[c].cursor
                  /\ {CellOfOp(canvas[k]) : k \in OpsOfKind(calls[c], "dark")}
                        = {n \in 0..calls[c].cursor : ((n \div 8) + (n % 8)) % 2 = 0}
            /\ calls[c].buffer.encoded =>
                  /\ calls[c].pc \in {"returned", "done"}
                  /\ calls[c].cursor = 64
                  /\ calls[c].buffer.image = canvas
                  /\ Cardinality(OpsOfKind(calls[c], "dark")) = 32
                  /\ Cardinality(OpsOfKind(calls[c], "piece")) = Cardinality(Occupied(chess))
                  /\ cfg.drawLabels =>
                        Cardinality(OpsOfKind(calls[c], "rank")
                                       \cup OpsOfKind(calls[c], "file")) = 16

\* a render with labels suspended on its second sprite, on a cell that already
\* carries a dark fill and a highlight fill
C9_Witness ==
    \E s \in Slots :
        LET canvas == calls[s].canvas
        IN  /\ calls[s].pc = "awaiting"
            /\ OpsOfKind(calls[s], "rank") # {} /\ OpsOfKind(calls[s], "file") # {}
            /\ \E a, b, c \in 2..Len(canvas) :
                  /\ a < b /\ b < c
                  /\ canvas[a].kind = "piece"
                  /\ canvas[b].kind = "dark"
                  /\ canvas[c].kind = "highlight"
                  /\ CellOfOp(canvas[a]) < calls[s].cursor
                  /\ CellOfOp(canvas[b]) = calls[s].cursor
                  /\ CellOfOp(canvas[c]) = calls[s].cursor

\* the sprites a render of position ch would hold: cell and image
SpritesOf(ch) ==
    {<<n, ImagePath(get(ch, SquareOf(cfg.flipped, n)))>> :
        n \in {m \in 0..63 : HasSprite(get(ch, SquareOf(cfg.flipped, m)))}}

SpritesDrawn(c) == {<<CellOfOp(c.canvas[k]), c.canvas[k].image>> : k \in OpsOfKind(c, "piece")}

\* C10: generateBuffer reads the position when it reaches a cell, not when it was
\* called: every time the loop of a call suspends, the sprite it awaits is the one
\* of the piece the engine holds on that square at that moment, and the cells it
\* passed since the last suspension are empty in that position and highlighted as
\* the map of that moment says; so a call made while the render is suspended shows
\* in the cells drawn afterwards.
C10_NoSnapshot ==
    [][ \A s \in Slots :
          (/\ calls'[s].pc = "awaiting"
           /\ calls[s].pc # "awaiting" \/ calls'[s].cursor # calls[s].cursor) =>
             /\ calls'[s].pending
                   = ImagePath(get(chess, SquareOf(cfg.flipped, calls'[s].cursor)))
             /\ HasSprite(get(chess, SquareOf(cfg.flipped, calls'[s].cursor)))
             /\ \A n \in 0..63 :
                   ((calls[s].pc = "awaiting" => n > calls[s].cursor)
                       /\ n < calls'[s].cursor) =>
                      ~HasSprite(get(chess, SquareOf(cfg.flipped, n)))
             /\ \A k \in (Len(calls[s].canvas) + 1)..Len(calls'[s].canvas) :
                   calls'[s].canvas[k].kind = "highlight" =>
                      calls'[s].canvas[k].style
                         = HighlightTold(SquareOf(cfg.flipped,
                                                  CellOfOp(calls'[s].canvas[k]))) ]_vars

\* a returned image whose sprites are neither those of the position the render
\* began with nor those of the position held at its end
C10_Witness ==
    \E s \in Slots :
        /\ calls[s].pc = "done"
        /\ races > 0
        /\ SpritesDrawn(calls[s]) # SpritesOf(calls[s].startChess)
        /\ SpritesDrawn(calls[s]) # SpritesOf(chess)

====
